---- MODULE Spec2Model ----
(***************************************************************************)
(* The generic repository layer of ambrosus-node-extended:                *)
(* BaseRepository (src/src/util/helpers/index.ts, lines 106-500) and      *)
(* OrganizationRepository (src/src/database/repository/                   *)
(* organization.repository.ts), over a document store.                    *)
(*                                                                         *)
(* A document is a function from field names to values.  A collection is  *)
(* the sequence of its documents in natural (insertion) order; the store  *)
(* hands out fresh _id values in increasing order.  A query is a function  *)
(* from field names to matchers; a matcher is [op, vs]: op "eq" is the     *)
(* equality matcher {field: v} (vs = {v}), op "in" is {field: {$in: vs}}.  *)
(***************************************************************************)
EXTENDS Integers, Sequences, FiniteSets, TLC

VARIABLES
    docs,            \* the repository's collection, in natural order
    nextId,          \* the next _id the store assigns
    now,             \* the clock getTimestamp() reads
    collection,      \* BaseRepository.collection is set (the cached handle)
    clientDb,        \* DBClient.db is set
    identityCounter, \* the identityCounter collection: the count of each
                     \* {indentity: 'organization_index'} document
    repo,            \* which class the repository instance is
    last,            \* the call that completed last, and what its caller saw
    held,            \* the page a caller of find keeps, to ask for the next
    pc,              \* per caller: the position of the call it has in
                     \* progress ("idle" when it has none)
    ret,             \* per caller: the identifier its last call returned
    issued,          \* every identifier returned so far, in order of return
    orgIndexes       \* the createIndex requests of the dbConnected listener:
                     \* how often each was made, which are unanswered, and
                     \* the unique indexes the organization collection has

vars == <<docs, nextId, now, collection, clientDb, identityCounter, repo,
          last, held, pc, ret, issued, orgIndexes>>

(***************************************************************************)
(* Bounds of the model.                                                    *)
(***************************************************************************)
MaxDocs == 2
MaxTime == 2
MaxIds == 3
MaxPaged == 2
MaxCursorDocs == 3
MaxLimit == 2
MaxEvents == 2
NumCallers == 2

\* organization.repository.ts:34, { $inc: { count: 9 } }
IncStep == 9

None == "none"

\* null / undefined of JavaScript, where a document or a result is expected
Null == [null |-> TRUE]

\* no request reached the store
NoRequest == [op |-> "none"]

(***************************************************************************)
(* Values, matchers, queries.                                              *)
(***************************************************************************)
Eq(v) == [op |-> "eq", vs |-> {v}]
In(s) == [op |-> "in", vs |-> s]

\* the empty JavaScript object {}
EmptyObj == [f \in {} |-> None]

\* obj.hasOwnProperty(field)
hasOwnProperty(obj, field) == field \in DOMAIN obj

\* obj[field] of JavaScript: undefined when the property is absent
Get(obj, field) == IF field \in DOMAIN obj THEN obj[field] ELSE None

\* o2's properties laid over o1's (lodash extend, $set)
Extend(o1, o2) ==
    [f \in DOMAIN o1 \cup DOMAIN o2 |-> IF f \in DOMAIN o2 THEN o2[f] ELSE o1[f]]

\* a filter document of the store matches a document: every field of the
\* filter is present in the document with a value its matcher admits
Matches(doc, query) ==
    \A f \in DOMAIN query : f \in DOMAIN doc /\ doc[f] \in query[f].vs

\* {$or: qor}: some clause matches
MatchesOr(doc, qor) ==
    \E i \in 1..Len(qor) : Matches(doc, qor[i])

\* the documents of a sequence that satisfy a test, order kept
RECURSIVE SelectDocs(_, _)
SelectDocs(s, query) ==
    IF s = <<>> THEN <<>>
    ELSE IF Matches(Head(s), query)
         THEN <<Head(s)>> \o SelectDocs(Tail(s), query)
         ELSE SelectDocs(Tail(s), query)

RECURSIVE SelectDocsOr(_, _)
SelectDocsOr(s, qor) ==
    IF s = <<>> THEN <<>>
    ELSE IF MatchesOr(Head(s), qor)
         THEN <<Head(s)>> \o SelectDocsOr(Tail(s), qor)
         ELSE SelectDocsOr(Tail(s), qor)

\* the position of the first matching document, 0 when there is none
RECURSIVE FirstMatchFrom(_, _, _)
FirstMatchFrom(s, query, i) ==
    IF i > Len(s) THEN 0
    ELSE IF Matches(s[i], query) THEN i
    ELSE FirstMatchFrom(s, query, i + 1)

FirstMatch(s, query) == FirstMatchFrom(s, query, 1)

\* cursor.limit(n).toArray()
Limit(s, n) == IF Len(s) <= n THEN s ELSE SubSeq(s, 1, n)

\* the sequence without its i-th element
RemoveAt(s, i) == SubSeq(s, 1, i - 1) \o SubSeq(s, i + 1, Len(s))

\* the equality clauses of a filter: what an upsert seeds the new document with
EqualityFields(query) ==
    [f \in {g \in DOMAIN query : query[g].op = "eq"} |->
        CHOOSE v \in query[f].vs : TRUE]

(***************************************************************************)
(* The store's operations, as the MongoDB driver documents them.           *)
(***************************************************************************)
\* collection.insertOne(item): the document gets the next _id
insertOne(s, id, item) ==
    [docs |-> Append(s, Extend(item, [_id |-> id])),
     nextId |-> id + 1,
     value |-> [insertedCount |-> 1, insertedId |-> id]]

\* collection.findOneAndUpdate(query, {$set: set, $setOnInsert: onInsert},
\* {upsert, returnOriginal: false}): the first match is updated in place and
\* returned as updated; with no match and upsert, one document is inserted,
\* made of the filter's equality clauses, set and onInsert; with no match and
\* no upsert nothing changes and the value is null
findOneAndUpdate(s, id, query, set, onInsert, upsert) ==
    LET i == FirstMatch(s, query) IN
    IF i > 0
    THEN [docs |-> [s EXCEPT ![i] = Extend(s[i], set)],
          nextId |-> id,
          value |-> Extend(s[i], set)]
    ELSE IF upsert
    THEN LET new == Extend(Extend(Extend(EqualityFields(query), set), onInsert),
                           [_id |-> id])
         IN [docs |-> Append(s, new), nextId |-> id + 1, value |-> new]
    ELSE [docs |-> s, nextId |-> id, value |-> Null]

\* collection.deleteOne(query): the first match, if any, is removed
storeDeleteOne(s, id, query) ==
    LET i == FirstMatch(s, query) IN
    [docs |-> IF i > 0 THEN RemoveAt(s, i) ELSE s,
     nextId |-> id,
     value |-> [deletedCount |-> IF i > 0 THEN 1 ELSE 0]]

\* a store operation that only reads
ReadOnly(s, id, value) == [docs |-> s, nextId |-> id, value |-> value]

(***************************************************************************)
(* The dbConnected listener of OrganizationRepository and the unique       *)
(* indexes it asks for.  The listener is registered by the constructor; it *)
(* runs when the client emits dbConnected and calls createIndex three      *)
(* times without awaiting or catching anything.                            *)
(***************************************************************************)
IndexFields == {"organizationId", "title", "owner"}

NoIndexes ==
    [requested |-> [f \in IndexFields |-> 0], pending |-> {}, declared |-> {}]

\* the listener: three createIndex requests leave for the store
dbConnectedListener(ix) ==
    [ix EXCEPT !.requested = [f \in IndexFields |-> @[f] + 1],
               !.pending = IndexFields]

\* the client emits dbConnected once, when its first connection is made; a
\* BaseRepository has no listener
dbConnected(wasConnected, isConnected, ix) ==
    IF repo = "organization" /\ ~wasConnected /\ isConnected
    THEN dbConnectedListener(ix)
    ELSE ix

\* two documents have the same value of the field (a missing field is null)
HasDuplicates(s, f) ==
    \E i \in 1..Len(s), j \in 1..Len(s) :
        /\ i < j
        /\ IF f \in DOMAIN s[i] /\ f \in DOMAIN s[j] THEN s[i][f] = s[j][f]
           ELSE f \notin DOMAIN s[i] /\ f \notin DOMAIN s[j]

\* the store accepts the insert of item: no declared unique index has its
\* value already
UniqueAdmits(item) ==
    \A f \in orgIndexes.declared : ~HasDuplicates(Append(docs, item), f)

(***************************************************************************)
(* BaseRepository: what every handler shares.                              *)
(*                                                                         *)
(* A handler awaits getCollection() first, outside any try block; it then  *)
(* evaluates its debug message and its argument checks (which may throw:   *)
(* `early`), and only then issues its one store request inside             *)
(* try { ... } catch (err) { throw new RepositoryError(err) }.             *)
(***************************************************************************)
\* getCollection() resolves: the handle is cached, or getConnection() returns
\* the connection (the existing one, or a new one when connecting succeeds)
getCollection(connOk) == collection \/ clientDb \/ connOk

\* catch (err) { this.logger.captureError(err); throw new RepositoryError(err); }
Rewrap(err) == "RepositoryError"

\* a call that returned: what it returned and the request it sent
Returned(op, value, request) ==
    [op |-> op, outcome |-> "ok", value |-> value,
     request |-> request, storeFailed |-> FALSE, connFailed |-> FALSE]

\* a call that threw: the error's kind and the request it sent, if any; it
\* has no value
Threw(op, outcome, request, storeFailed, connFailed) ==
    [op |-> op, outcome |-> outcome,
     request |-> request, storeFailed |-> storeFailed, connFailed |-> connFailed]

\* the handler proper; `held` is left to the caller
HandlerCore(op, connOk, storeOk, early, request, effect) ==
    /\ collection' = getCollection(connOk)
    /\ clientDb' = getCollection(connOk)
    /\ IF ~getCollection(connOk)
       THEN /\ last' = Threw(op, "TransportError", NoRequest, FALSE, TRUE)
            /\ UNCHANGED <<docs, nextId>>
       ELSE IF early # None
       THEN /\ last' = Threw(op, early, NoRequest, FALSE, FALSE)
            /\ UNCHANGED <<docs, nextId>>
       ELSE IF ~storeOk
       THEN /\ last' = Threw(op, Rewrap("StoreError"), request, TRUE, FALSE)
            /\ UNCHANGED <<docs, nextId>>
       ELSE /\ docs' = effect.docs
            /\ nextId' = effect.nextId
            /\ last' = Returned(op, effect.value, request)
    /\ orgIndexes' = dbConnected(clientDb, getCollection(connOk), orgIndexes)
    /\ UNCHANGED <<now, identityCounter, repo, pc, ret, issued>>

Handler(op, connOk, storeOk, early, request, effect) ==
    /\ HandlerCore(op, connOk, storeOk, early, request, effect)
    /\ UNCHANGED held

(***************************************************************************)
(* BaseRepository's operations.                                            *)
(***************************************************************************)
create(item, connOk, storeOk) ==
    /\ Handler("create", connOk, storeOk, None,
               [op |-> "insertOne"],
               insertOne(docs, nextId, item))

updateSet(item) == item

\* update that upserts whatever `create` says
updateUpsert_Always(create_) == TRUE

updateUpsert(create_) == create_

update(query, item, create_, connOk, storeOk) ==
    /\ Handler("update", connOk, storeOk, None,
               [op |-> "findOneAndUpdate", filter |-> query,
                set |-> updateSet(item), upsert |-> updateUpsert(create_)],
               findOneAndUpdate(docs, nextId, query, updateSet(item), EmptyObj,
                                updateUpsert(create_)))

deleteOne(query, connOk, storeOk) ==
    Handler("deleteOne", connOk, storeOk, None,
            [op |-> "deleteOne"],
            storeDeleteOne(docs, nextId, query))

count(query, connOk, storeOk) ==
    Handler("count", connOk, storeOk, None,
            [op |-> "countDocuments"],
            ReadOnly(docs, nextId, Len(SelectDocs(docs, query))))

(***************************************************************************)
(* mongo-cursor-pagination (MongoPaging), as far as the repository uses   *)
(* it.  A cursor is <<value of the paginated field, _id>> of a document;   *)
(* the absent cursor is <<>>.  Projections are not modelled (apiQuery      *)
(* .fields is empty).  A missing paginated field reads as null, written 0  *)
(* here: it sorts before every number, and no $lt / $gt comparison with a  *)
(* number admits it.                                                       *)
(***************************************************************************)
NoCursor == <<>>

KeyOf(doc, field) == IF field \in DOMAIN doc THEN doc[field] ELSE 0

\* d1 comes before d2 under the sort {field: dir, _id: dir}
Before(d1, d2, field, asc) ==
    LET k1 == KeyOf(d1, field)
        k2 == KeyOf(d2, field)
    IN IF asc
       THEN k1 < k2 \/ (k1 = k2 /\ d1._id < d2._id)
       ELSE k1 > k2 \/ (k1 = k2 /\ d1._id > d2._id)

RECURSIVE InsertSorted(_, _, _, _)
InsertSorted(d, s, field, asc) ==
    IF s = <<>> THEN <<d>>
    ELSE IF Before(d, Head(s), field, asc) THEN <<d>> \o s
    ELSE <<Head(s)>> \o InsertSorted(d, Tail(s), field, asc)

RECURSIVE SortDocs(_, _, _)
SortDocs(s, field, asc) ==
    IF s = <<>> THEN <<>>
    ELSE InsertSorted(Head(s), SortDocs(Tail(s), field, asc), field, asc)

RECURSIVE Reverse(_)
Reverse(s) == IF s = <<>> THEN <<>> ELSE Reverse(Tail(s)) \o <<Head(s)>>

\* generateCursorQuery: {$or: [{field: {op: c[1]}}, {field: c[1], _id: {op: c[2]}}]}
CursorAdmits(doc, field, cursor, gt) ==
    LET k == KeyOf(doc, field) IN
    \/ cursor = NoCursor
    \/ /\ cursor # NoCursor
       /\ \/ k # 0 /\ cursor[1] # 0 /\ (IF gt THEN k > cursor[1] ELSE k < cursor[1])
          \/ k = cursor[1] /\ (IF gt THEN doc._id > cursor[2] ELSE doc._id < cursor[2])

RECURSIVE SelectAfter(_, _, _, _)
SelectAfter(s, field, cursor, gt) ==
    IF s = <<>> THEN <<>>
    ELSE IF CursorAdmits(Head(s), field, cursor, gt)
         THEN <<Head(s)>> \o SelectAfter(Tail(s), field, cursor, gt)
         ELSE SelectAfter(Tail(s), field, cursor, gt)

CursorOf(doc, field) == <<KeyOf(doc, field), doc._id>>

\* prepareResponse
prepareResponse(found, params) ==
    LET hasMore == Len(found) > params.limit
        kept == IF hasMore THEN SubSeq(found, 1, params.limit) ELSE found
        results == IF params.previous # NoCursor THEN Reverse(kept) ELSE kept
    IN [results |-> results,
        previous |-> IF results = <<>> THEN NoCursor
                     ELSE CursorOf(results[1], params.paginatedField),
        hasPrevious |-> params.next # NoCursor
                        \/ (params.previous # NoCursor /\ hasMore),
        next |-> IF results = <<>> THEN NoCursor
                 ELSE CursorOf(results[Len(results)], params.paginatedField),
        hasNext |-> params.previous # NoCursor \/ hasMore]

\* params.sortAscending of the library: undefined (falsy) when the caller
\* passed no such key
SortAscendingOf(params) ==
    IF "sortAscending" \in DOMAIN params THEN params.sortAscending ELSE FALSE

\* the documents the paged query reads: filter, cursor, sort, limit + 1
PagedScan(filtered, params) ==
    LET back == params.previous # NoCursor
        asc == SortAscendingOf(params)
        sortAsc == (~asc /\ back) \/ (asc /\ ~back)
        cursor == IF params.next # NoCursor THEN params.next ELSE params.previous
    IN Limit(SortDocs(SelectAfter(filtered, params.paginatedField, cursor, sortAsc),
                      params.paginatedField, sortAsc),
             params.limit + 1)

\* MongoPaging.find(collection, params)
MongoPaging_find(s, params) ==
    prepareResponse(PagedScan(SelectDocs(s, params.query), params), params)

\* the pipeline's $match stages, applied in turn
RECURSIVE RunPipeline(_, _)
RunPipeline(s, aggregation) ==
    IF aggregation = <<>> THEN s
    ELSE RunPipeline(SelectDocs(s, Head(aggregation)), Tail(aggregation))

\* MongoPaging.aggregate(collection, params): the cursor's $match, the $sort
\* and the $limit are spliced in after the pipeline's $match
MongoPaging_aggregate(s, params) ==
    prepareResponse(PagedScan(RunPipeline(s, params.aggregation), params), params)

\* the text score of a document for a search string: here, the number of its
\* text-indexed fields that hold the string
TextFields == {"title", "message"}

TextScore(doc, search) ==
    Cardinality({f \in TextFields \cap DOMAIN doc : doc[f] = search})

\* $project {_id: 1, score: {$meta: 'textScore'}}
RECURSIVE ProjectScore(_, _)
ProjectScore(s, search) ==
    IF s = <<>> THEN <<>>
    ELSE IF TextScore(Head(s), search) > 0
         THEN <<[_id |-> Head(s)._id, score |-> TextScore(Head(s), search)]>>
              \o ProjectScore(Tail(s), search)
         ELSE ProjectScore(Tail(s), search)

\* MongoPaging.search(collection, searchString, params): $match with $text,
\* $project, $sort {score: -1, _id: -1}, the next cursor's $match, $limit
MongoPaging_search(s, search, params) ==
    LET scored == ProjectScore(SelectDocs(s, params.query), search)
        results == Limit(SortDocs(SelectAfter(scored, "score", params.next, FALSE),
                                  "score", FALSE),
                         params.limit)
    IN [results |-> results,
        next |-> IF Len(results) = params.limit
                 THEN CursorOf(results[Len(results)], "score")
                 ELSE NoCursor]

(***************************************************************************)
(* The pagination getters: BaseRepository's throw, OrganizationRepository  *)
(* overrides both.  A getter yields [throws, value].                       *)
(***************************************************************************)
paginatedField ==
    IF repo = "organization"
    THEN [throws |-> None, value |-> "createdOn"]
    ELSE [throws |-> "DeveloperError", value |-> None]

paginatedAscending ==
    IF repo = "organization"
    THEN [throws |-> None, value |-> FALSE]
    ELSE [throws |-> "DeveloperError", value |-> FALSE]

\* a debug message that does not read the getters
pagingDebug_Silent == None

\* the debug message of find, search and aggregatePaging interpolates
\* ${this.paginatedField} and then ${this.paginatedAscending}, before the try
pagingDebug ==
    IF paginatedField.throws # None THEN paginatedField.throws
    ELSE paginatedAscending.throws

\* an APIQuery's pagination part
APIQuery(query, limit, next, previous) ==
    [query |-> query, limit |-> limit, next |-> next, previous |-> previous]

\* the parameters without the cursor
findParams_NoNext(apiQuery) ==
    [query |-> apiQuery.query,
     paginatedField |-> paginatedField.value,
     sortAscending |-> paginatedAscending.value,
     limit |-> apiQuery.limit,
     next |-> NoCursor,
     previous |-> apiQuery.previous]

findParams(apiQuery) ==
    [query |-> apiQuery.query,
     paginatedField |-> paginatedField.value,
     sortAscending |-> paginatedAscending.value,
     limit |-> apiQuery.limit,
     next |-> apiQuery.next,
     previous |-> apiQuery.previous]

aggregatePagingParams(apiQuery) ==
    [aggregation |-> apiQuery.query,
     paginatedField |-> paginatedField.value,
     paginatedAscending |-> paginatedAscending.value,
     limit |-> apiQuery.limit,
     next |-> apiQuery.next,
     previous |-> apiQuery.previous]

searchParams(apiQuery) ==
    [query |-> apiQuery.query,
     limit |-> apiQuery.limit,
     next |-> apiQuery.next,
     previous |-> apiQuery.previous]

find(apiQuery, connOk, storeOk) ==
    Handler("find", connOk, storeOk, pagingDebug,
            [op |-> "MongoPaging.find", limit |-> apiQuery.limit],
            ReadOnly(docs, nextId, MongoPaging_find(docs, findParams(apiQuery))))

\* find, by a caller that keeps the first page (no cursor) it gets, with the
\* query and the limit it asked for, to ask for the neighbouring pages later.
\* held.mark is the next _id at that moment: the documents inserted later
\* have that _id or a greater one.
findAndKeep(apiQuery, connOk, storeOk) ==
    /\ HandlerCore("find", connOk, storeOk, pagingDebug,
                   [op |-> "MongoPaging.find", limit |-> apiQuery.limit],
                   ReadOnly(docs, nextId, MongoPaging_find(docs, findParams(apiQuery))))
    /\ held' = IF /\ getCollection(connOk) /\ pagingDebug = None /\ storeOk
                  /\ apiQuery.next = NoCursor /\ apiQuery.previous = NoCursor
               THEN [query |-> apiQuery.query, limit |-> apiQuery.limit,
                     mark |-> nextId,
                     page |-> MongoPaging_find(docs, findParams(apiQuery))]
               ELSE held

aggregatePaging(apiQuery, connOk, storeOk) ==
    Handler("aggregatePaging", connOk, storeOk, pagingDebug,
            [op |-> "MongoPaging.aggregate", limit |-> apiQuery.limit],
            ReadOnly(docs, nextId,
                     MongoPaging_aggregate(docs, aggregatePagingParams(apiQuery))))

search(apiQuery, text, connOk, storeOk) ==
    Handler("search", connOk, storeOk, pagingDebug,
            [op |-> "MongoPaging.search", limit |-> apiQuery.limit],
            ReadOnly(docs, nextId,
                     MongoPaging_search(docs, text, searchParams(apiQuery))))

aggregate(pipeline, connOk, storeOk) ==
    Handler("aggregate", connOk, storeOk, None,
            [op |-> "aggregate"],
            ReadOnly(docs, nextId, RunPipeline(docs, pipeline)))

(***************************************************************************)
(* exists and existsOR.                                                    *)
(***************************************************************************)
\* value.length of JavaScript for a matcher: a string's length for the
\* equality matcher on a string, undefined (written 0 - 1) for an object
\* such as {$in: [...]}
LengthOf(matcher) ==
    IF matcher.op = "eq" THEN Len(CHOOSE v \in matcher.vs : TRUE) ELSE 0 - 1

\* if (!apiQuery.query.keys.length) throw new RepositoryError(...): the
\* property `keys` of the filter object is read; reading .length of undefined
\* throws a TypeError; !0 and !undefined are true
existsCheck(query) ==
    IF ~hasOwnProperty(query, "keys") THEN "TypeError"
    ELSE IF LengthOf(query["keys"]) <= 0 THEN "RepositoryError"
    ELSE None

exists(query, connOk, storeOk) ==
    Handler("exists", connOk, storeOk, existsCheck(query),
            [op |-> "find"],
            ReadOnly(docs, nextId, Len(Limit(SelectDocs(docs, query), 1)) > 0))

\* _.reduce(fields, (rv, field) => { if (obj.hasOwnProperty(field))
\* rv.push({[field]: obj[field]}); return rv; }, [])
RECURSIVE existsOR_qor(_, _)
existsOR_qor(obj, fields) ==
    IF fields = <<>> THEN <<>>
    ELSE IF hasOwnProperty(obj, Head(fields))
         THEN <<[f \in {Head(fields)} |-> Eq(obj[Head(fields)])]>>
              \o existsOR_qor(obj, Tail(fields))
         ELSE existsOR_qor(obj, Tail(fields))

\* existsOR without its guard on an empty qor
existsORCheck_NoGuard(qor) == None

\* if (!qor.length) throw new RepositoryError(...)
existsORCheck(qor) == IF Len(qor) = 0 THEN "RepositoryError" ELSE None

existsOR(obj, fields, connOk, storeOk) ==
    LET qor == existsOR_qor(obj, fields) IN
    Handler("existsOR", connOk, storeOk,
            existsORCheck(qor),
            [op |-> "find", filter |-> qor],
            ReadOnly(docs, nextId, Len(Limit(SelectDocsOr(docs, qor), 1)) > 0))

(***************************************************************************)
(* The remaining operations of BaseRepository.                             *)
(***************************************************************************)
RECURSIVE insertMany(_, _, _)
insertMany(s, id, items) ==
    IF items = <<>> THEN [docs |-> s, nextId |-> id, value |-> 0]
    ELSE LET rest == insertMany(Append(s, Extend(Head(items), [_id |-> id])),
                                id + 1, Tail(items))
         IN [docs |-> rest.docs, nextId |-> rest.nextId, value |-> rest.value + 1]

\* the driver rejects insertMany([]) ("Invalid Operation, no operations
\* specified"); the rejection is caught and rewrapped like any other
createBulk(items, connOk, storeOk) ==
    /\ Handler("createBulk", connOk,
               storeOk /\ items # <<>>, None,
               [op |-> "insertMany"],
               insertMany(docs, nextId, items))

distinct(field, connOk, storeOk) ==
    Handler("distinct", connOk, storeOk, None,
            [op |-> "distinct"],
            ReadOnly(docs, nextId,
                     {docs[i][field] : i \in {j \in 1..Len(docs) : field \in DOMAIN docs[j]}}))

\* return result[0] || undefined
findOne(query, connOk, storeOk) ==
    Handler("findOne", connOk, storeOk, None,
            [op |-> "find"],
            ReadOnly(docs, nextId,
                     IF FirstMatch(docs, query) > 0
                     THEN docs[FirstMatch(docs, query)] ELSE Null))

\* { $setOnInsert: { createdOn: getTimestamp(), createdBy: createUser } }
findOneOrCreateSetOnInsert(createUser) ==
    [createdOn |-> now, createdBy |-> createUser]

\* an update document that also stamps createdOn with $set
findOneOrCreateSet_Stamp == [createdOn |-> now]

\* the update document has no $set
findOneOrCreateSet == EmptyObj

findOneOrCreate(query, createUser, connOk, storeOk) ==
    /\ Handler("findOneOrCreate", connOk, storeOk, None,
               [op |-> "findOneAndUpdate", filter |-> query,
                setOnInsert |-> findOneOrCreateSetOnInsert(createUser)],
               findOneAndUpdate(docs, nextId, query, findOneOrCreateSet,
                                findOneOrCreateSetOnInsert(createUser), TRUE))

(***************************************************************************)
(* OrganizationRepository.getNewOrganizationIdentifier: one                *)
(* findOneAndUpdate({indentity: 'organization_index'}, {$inc: {count: 9}},  *)
(* {upsert: true, returnOriginal: false}) on this.client.db, with neither   *)
(* getCollection() nor a try block around it.                               *)
(*                                                                         *)
(* The store runs an upserting findOneAndUpdate in two steps: it looks for  *)
(* a match and, finding one, updates it atomically; finding none, it        *)
(* inserts the new document afterwards.  No unique index on identityCounter *)
(* is declared, so inserts of concurrent callers that all found none all    *)
(* succeed.                                                                 *)
(***************************************************************************)
\* the step added to the counter
counterInc == IncStep

\* returnOriginal: true, the document as it was before the increment
counterUpdate_ReturnOriginal(c) ==
    [counter |-> [c EXCEPT ![1] = c[1] + counterInc], value |-> c[1]]

\* the matching counter document exists: it is incremented and returned
\* (returnOriginal: false)
counterUpdate(c) ==
    [counter |-> [c EXCEPT ![1] = c[1] + counterInc], value |-> c[1] + counterInc]

\* no match was found: a document {indentity, count: 9} is inserted
counterInsert(c) ==
    [counter |-> Append(c, counterInc), value |-> counterInc]

\* return result.value.count, to caller p
counterReturn(p, r) ==
    /\ identityCounter' = r.counter
    /\ ret' = [ret EXCEPT ![p] = r.value]
    /\ issued' = Append(issued, r.value)
    /\ pc' = [pc EXCEPT ![p] = "idle"]
    /\ last' = Returned("getNewOrganizationIdentifier", r.value,
                        [op |-> "findOneAndUpdate"])
    /\ UNCHANGED <<docs, nextId, now, collection, clientDb, repo, held,
                   orgIndexes>>

\* caller p calls: this.client.db is read (a TypeError when there is no
\* connection yet) and the request is sent; a failure of the store reaches
\* the caller as it is
getNewOrganizationIdentifier(p, storeOk) ==
    /\ pc[p] = "idle"
    /\ IF ~clientDb
       THEN /\ last' = Threw("getNewOrganizationIdentifier", "TypeError",
                             NoRequest, FALSE, FALSE)
            /\ UNCHANGED pc
       ELSE IF ~storeOk
       THEN /\ last' = Threw("getNewOrganizationIdentifier", "StoreError",
                             [op |-> "findOneAndUpdate"], TRUE, FALSE)
            /\ UNCHANGED pc
       ELSE /\ pc' = [pc EXCEPT ![p] = "find"]
            /\ UNCHANGED last
    /\ UNCHANGED <<docs, nextId, now, collection, clientDb, identityCounter,
                   repo, held, ret, issued,
                   orgIndexes>>

\* the store serves p's request: it looks for the counter document and,
\* finding it, increments and returns it in one step; finding none, it goes
\* on to insert
counterFind(p) ==
    /\ pc[p] = "find"
    /\ IF identityCounter # <<>>
       THEN counterReturn(p, counterUpdate(identityCounter))
       ELSE /\ pc' = [pc EXCEPT ![p] = "insert"]
            /\ UNCHANGED <<docs, nextId, now, collection, clientDb,
                           identityCounter, repo, last, held, ret, issued,
                   orgIndexes>>

\* the store inserts the document for p, which found none
counterUpsert(p) ==
    /\ pc[p] = "insert"
    /\ counterReturn(p, counterInsert(identityCounter))

\* time passes
Tick ==
    /\ now' = now + 1
    /\ UNCHANGED <<docs, nextId, collection, clientDb, identityCounter, repo,
                   last, held, pc, ret, issued,
                   orgIndexes>>

(***************************************************************************)
(* The inputs the specifications draw from.                                *)
(***************************************************************************)
\* no call was made yet
NoCall ==
    [op |-> "none", outcome |-> "none", request |-> NoRequest,
     storeFailed |-> FALSE, connFailed |-> FALSE]

NoPage ==
    [query |-> EmptyObj, limit |-> 1, mark |-> 1,
     page |-> [results |-> <<>>, previous |-> NoCursor, hasPrevious |-> FALSE,
               next |-> NoCursor, hasNext |-> FALSE]]

Callers == 1..NumCallers

\* no call of getNewOrganizationIdentifier is in progress
AllIdle == \A p \in Callers : pc[p] = "idle"

Limits == 1..MaxLimit

QAddress == [address |-> Eq("0xabc")]

QTitleIn == [title |-> In({"X", "Y"})]

Queries ==
    { EmptyObj, QAddress, QTitleIn, [keys |-> Eq("k")], [keys |-> Eq("")] }

UpdateItems == { [title |-> "X"], [title |-> "Y"] }

CreateItems == { [title |-> "X", createdOn |-> now] }

Users == { "alice", "bob" }

ExistsORObjects ==
    { EmptyObj, [title |-> "X"], [title |-> "Y", address |-> "0xabc"] }

ExistsORFields ==
    { <<>>, <<"title">>, <<"owner">>, <<"address", "title">>, <<"owner", "title">> }

Pipelines == { <<>>, <<[title |-> Eq("X")]>> }

\* the connection attempt can only fail while there is no connection
ConnChoices == IF collection \/ clientDb THEN {TRUE} ELSE BOOLEAN

\* the counter's bound: no call is started once the counter reached it
CounterBelow(n) ==
    IF identityCounter = <<>> THEN TRUE ELSE identityCounter[1] < n * IncStep

InitCommon ==
    /\ docs = <<>>
    /\ nextId = 1
    /\ now = 1
    /\ collection = FALSE
    /\ clientDb \in BOOLEAN
    /\ identityCounter = <<>>
    /\ last = NoCall
    /\ held = NoPage
    /\ pc = [p \in Callers |-> "idle"]
    /\ ret = [p \in Callers |-> 0]
    /\ issued = <<>>
    /\ orgIndexes = NoIndexes

(***************************************************************************)
(* EventService.getLatestAssetEventsOfType.  An event is written flat:     *)
(* assetId for content.idData.assetId, timestamp for                       *)
(* content.idData.timestamp, type for content.data.type.                   *)
(***************************************************************************)
\* _id.toString(): the decimal digits of the _id, most significant first
RECURSIVE toString(_)
toString(n) == IF n < 10 THEN <<n>> ELSE toString(n \div 10) \o <<n % 10>>

\* a < b on strings of JavaScript: the first differing character decides, a
\* proper prefix is smaller
RECURSIVE StringLess(_, _)
StringLess(a, b) ==
    IF b = <<>> THEN FALSE
    ELSE IF a = <<>> THEN TRUE
    ELSE IF Head(a) # Head(b) THEN Head(a) < Head(b)
    ELSE StringLess(Tail(a), Tail(b))

\* exists.content.idData.timestamp === event.content.idData.timestamp
\* (undefined === undefined holds)
sameTimestamp(existing, event) ==
    IF "timestamp" \in DOMAIN existing /\ "timestamp" \in DOMAIN event
    THEN existing.timestamp = event.timestamp
    ELSE "timestamp" \notin DOMAIN existing /\ "timestamp" \notin DOMAIN event

\* like timestampLess, with the comparison turned around
timestampLess_Oldest(existing, event) ==
    /\ "timestamp" \in DOMAIN existing /\ "timestamp" \in DOMAIN event
    /\ existing.timestamp > event.timestamp

\* exists.content.idData.timestamp < event.content.idData.timestamp
\* (a comparison with undefined is false)
timestampLess(existing, event) ==
    /\ "timestamp" \in DOMAIN existing /\ "timestamp" \in DOMAIN event
    /\ existing.timestamp < event.timestamp

\* the position of assetId among the keys of `events`, 0 when it is no key
RECURSIVE KeyIndex(_, _, _)
KeyIndex(events, assetId, i) ==
    IF i > Len(events) THEN 0
    ELSE IF events[i].assetId = assetId THEN i
    ELSE KeyIndex(events, assetId, i + 1)

\* one call of the callback given to infoEvents.map: `events` is the object
\* {assetId: event}, written as the sequence of its values in the order of
\* its keys (insertion order; assigning to an existing key keeps its place)
latestStep(events, event) ==
    LET i == KeyIndex(events, event.assetId, 1) IN
    IF i = 0 THEN Append(events, event)
    ELSE IF \/ sameTimestamp(events[i], event)
               /\ StringLess(toString(events[i]._id), toString(event._id))
            \/ timestampLess(events[i], event)
    THEN [events EXCEPT ![i] = event]
    ELSE events

RECURSIVE latestFold(_, _)
latestFold(events, infoEvents) ==
    IF infoEvents = <<>> THEN events
    ELSE latestFold(latestStep(events, Head(infoEvents)), Tail(infoEvents))

\* const events = {}; infoEvents.map(...);
\* return Object.keys(events).map(event => events[event])
latestOf(infoEvents) == latestFold(<<>>, infoEvents)

\* new APIQuery({'content.data.type': type,
\*               'content.idData.assetId': {$in: assets}})
latestQuery(assets, type) == [type |-> Eq(type), assetId |-> In(assets)]

\* the elements of a sequence
Range(s) == {s[i] : i \in 1..Len(s)}

\* the orders in which the elements of a sequence can come
Orderings(s) ==
    {t \in [1..Len(s) -> Range(s)] : Range(t) = Range(s)}

\* what eventRepository.find(query) may resolve to: the events that match,
\* in an order of the repository's choosing
eventRepositoryFind(query) == Orderings(SelectDocs(docs, query))

getLatestAssetEventsOfType(assets, type, infoEvents, findOk) ==
    /\ infoEvents \in eventRepositoryFind(latestQuery(assets, type))
    /\ last' = IF findOk
               THEN Returned("getLatestAssetEventsOfType", latestOf(infoEvents),
                             [op |-> "find", filter |-> latestQuery(assets, type)])
               ELSE Threw("getLatestAssetEventsOfType", "RepositoryError",
                          [op |-> "find", filter |-> latestQuery(assets, type)],
                          TRUE, FALSE)
    /\ UNCHANGED <<docs, nextId, now, collection, clientDb, identityCounter,
                   repo, held, pc, ret, issued,
                   orgIndexes>>

(***************************************************************************)
(* A BaseRepository operation, step by step, as the event loop may         *)
(* interleave it with the operations of other callers: every `await` is a  *)
(* point where other callers run.  count(apiQuery) is the operation taken. *)
(***************************************************************************)
\* getCollection(), up to its await: if (this.collection) return
\* this.collection; otherwise this.client.getConnection() is called
getCollectionEnter(p) ==
    /\ pc[p] = "idle"
    /\ pc' = [pc EXCEPT ![p] = IF collection THEN "ready" ELSE "connecting"]
    /\ UNCHANGED <<docs, nextId, now, collection, clientDb, identityCounter,
                   repo, last, held, ret, issued,
                   orgIndexes>>

\* the connection p awaits is there: this.db = ...; this.collection =
\* this.db.collection(this.collectionName); return this.collection
getConnectionResolved(p) ==
    /\ pc[p] = "connecting"
    /\ clientDb' = TRUE
    /\ collection' = TRUE
    /\ pc' = [pc EXCEPT ![p] = "ready"]
    /\ orgIndexes' = dbConnected(clientDb, TRUE, orgIndexes)
    /\ UNCHANGED <<docs, nextId, now, identityCounter, repo, last, held,
                   ret, issued>>

\* a retrying getCollection: the failure is reported and p awaits a new
\* getConnection()
getConnectionRejected_Retry(p) ==
    /\ pc[p] = "connecting"
    /\ ~clientDb
    /\ last' = Threw("count", "TransportError", NoRequest, FALSE, TRUE)
    /\ UNCHANGED <<docs, nextId, now, collection, clientDb, identityCounter,
                   repo, held, pc, ret, issued,
                   orgIndexes>>

\* the connection attempt p awaits fails (there is no connection to hand
\* out): the await throws, outside every try block, and the operation ends
getConnectionRejected(p) ==
    /\ pc[p] = "connecting"
    /\ ~clientDb
    /\ last' = Threw("count", "TransportError", NoRequest, FALSE, TRUE)
    /\ pc' = [pc EXCEPT ![p] = "idle"]
    /\ UNCHANGED <<docs, nextId, now, collection, clientDb, identityCounter,
                   repo, held, ret, issued,
                   orgIndexes>>

\* try { return await collection.countDocuments(apiQuery.query) }
\* catch (err) { throw new RepositoryError(err) }
countStore(p, query, storeOk) ==
    /\ pc[p] = "ready"
    /\ last' = IF storeOk
               THEN Returned("count", Len(SelectDocs(docs, query)),
                             [op |-> "countDocuments"])
               ELSE Threw("count", Rewrap("StoreError"),
                          [op |-> "countDocuments"], TRUE, FALSE)
    /\ pc' = [pc EXCEPT ![p] = "idle"]
    /\ UNCHANGED <<docs, nextId, now, collection, clientDb, identityCounter,
                   repo, held, ret, issued,
                   orgIndexes>>

\* the store answers the createIndex({f: 1}, {unique: true}) request: the
\* index is built unless two documents share a value, in which case the
\* request is rejected, and the rejection is handled by nobody
createIndex(f) ==
    /\ f \in orgIndexes.pending
    /\ orgIndexes' = [orgIndexes EXCEPT
                        !.pending = @ \ {f},
                        !.declared = IF HasDuplicates(docs, f) THEN @
                                     ELSE @ \cup {f}]
    /\ UNCHANGED <<docs, nextId, now, collection, clientDb, identityCounter,
                   repo, last, held, pc, ret, issued>>

(***************************************************************************)
(* Spec: one OrganizationRepository instance, every operation of it,       *)
(* called one after another and each running to completion; the connection *)
(* and the store may fail at any call.                                     *)
(***************************************************************************)
Init == InitCommon /\ repo = "organization"

Next ==
    \/ now < MaxTime /\ Tick
    \/ \E connOk \in ConnChoices, storeOk \in BOOLEAN, item \in CreateItems :
          nextId <= MaxDocs /\ create(item, connOk, storeOk)
    \/ \E connOk \in ConnChoices, storeOk \in BOOLEAN,
          items \in {<<>>} \cup {<<i>> : i \in CreateItems} :
          nextId + Len(items) <= MaxDocs + 1 /\ createBulk(items, connOk, storeOk)
    \/ \E connOk \in ConnChoices, storeOk \in BOOLEAN, item \in UpdateItems,
          c \in BOOLEAN :
          nextId <= MaxDocs /\ update(QAddress, item, c, connOk, storeOk)
    \/ \E connOk \in ConnChoices, storeOk \in BOOLEAN :
          deleteOne(QAddress, connOk, storeOk)
    \/ \E connOk \in ConnChoices, storeOk \in BOOLEAN, q \in Queries :
          count(q, connOk, storeOk)
    \/ \E connOk \in ConnChoices, storeOk \in BOOLEAN, q \in Queries :
          exists(q, connOk, storeOk)
    \/ \E connOk \in ConnChoices, storeOk \in BOOLEAN, obj \in ExistsORObjects,
          fields \in ExistsORFields :
          existsOR(obj, fields, connOk, storeOk)
    \/ \E connOk \in ConnChoices, storeOk \in BOOLEAN, f \in {"title", "owner"} :
          distinct(f, connOk, storeOk)
    \/ \E connOk \in ConnChoices, storeOk \in BOOLEAN, q \in Queries :
          findOne(q, connOk, storeOk)
    \/ \E connOk \in ConnChoices, storeOk \in BOOLEAN :
          nextId <= MaxDocs /\ findOneOrCreate(QTitleIn, "alice", connOk, storeOk)
    \/ \E connOk \in ConnChoices, storeOk \in BOOLEAN, q \in Queries, l \in Limits :
          find(APIQuery(q, l, NoCursor, NoCursor), connOk, storeOk)
    \/ \E connOk \in ConnChoices, storeOk \in BOOLEAN, q \in Queries, l \in Limits :
          search(APIQuery(q, l, NoCursor, NoCursor), "X", connOk, storeOk)
    \/ \E connOk \in ConnChoices, storeOk \in BOOLEAN, p \in Pipelines, l \in Limits :
          aggregatePaging(APIQuery(p, l, NoCursor, NoCursor), connOk, storeOk)
    \/ \E connOk \in ConnChoices, storeOk \in BOOLEAN, p \in Pipelines :
          aggregate(p, connOk, storeOk)
    \/ \E storeOk \in BOOLEAN :
          CounterBelow(1) /\ getNewOrganizationIdentifier(1, storeOk)
    \/ counterFind(1)
    \/ counterUpsert(1)

Spec == Init /\ [][Next]_vars

(***************************************************************************)
(* SpecPaging: the paginated operations of an OrganizationRepository.      *)
(* Documents are created with a createdOn of the caller's choosing.  The   *)
(* caller of find may ask for the page after, or before, the page it       *)
(* holds, and keep the page it gets.                                       *)
(***************************************************************************)
Stamps == {1, 2}

PagedItems ==
    { [title |-> "X", createdOn |-> t] : t \in Stamps }
    \cup { [title |-> "X", message |-> "X", createdOn |-> t] : t \in Stamps }

PagedQueries == { EmptyObj, [title |-> Eq("X")] }

\* the caller keeps the page its last find returned as the page it holds
Advance ==
    /\ last.op = "find" /\ last.outcome = "ok"
    /\ last.value # held.page
    /\ held' = [held EXCEPT !.page = last.value]
    /\ UNCHANGED <<docs, nextId, now, collection, clientDb, identityCounter,
                   repo, last, pc, ret, issued,
                   orgIndexes>>

\* the cursors a caller can hold: none, that of the page it holds, or one
\* that the last paged call returned
NextCursors == {NoCursor, held.page.next}

InitPaging == InitCommon /\ repo = "organization"

NextPaging ==
    \/ \E connOk \in ConnChoices, storeOk \in BOOLEAN, item \in PagedItems :
          nextId <= MaxPaged /\ create(item, connOk, storeOk)
    \/ \E connOk \in ConnChoices, storeOk \in BOOLEAN, q \in PagedQueries,
          l \in Limits :
          findAndKeep(APIQuery(q, l, NoCursor, NoCursor), connOk, storeOk)
    \/ \E connOk \in ConnChoices, storeOk \in BOOLEAN :
          /\ held.page.next # NoCursor
          /\ findAndKeep(APIQuery(held.query, held.limit, held.page.next, NoCursor),
                  connOk, storeOk)
    \/ \E connOk \in ConnChoices, storeOk \in BOOLEAN :
          /\ held.page.previous # NoCursor
          /\ findAndKeep(APIQuery(held.query, held.limit, NoCursor, held.page.previous),
                  connOk, storeOk)
    \/ Advance
    \/ \E connOk \in ConnChoices, storeOk \in BOOLEAN, q \in PagedQueries,
          l \in Limits, c \in NextCursors :
          aggregatePaging(APIQuery(<<q>>, l, c, NoCursor), connOk, storeOk)
    \/ \E connOk \in ConnChoices, storeOk \in BOOLEAN, q \in PagedQueries,
          l \in Limits :
          search(APIQuery(q, l, NoCursor, NoCursor), "X", connOk, storeOk)
    \/ \E connOk \in ConnChoices, storeOk \in BOOLEAN :
          /\ last.op = "search" /\ last.outcome = "ok" /\ last.value.next # NoCursor
          /\ \E q \in PagedQueries, l \in Limits :
                search(APIQuery(q, l, last.value.next, NoCursor), "X", connOk, storeOk)

SpecPaging == InitPaging /\ [][NextPaging]_vars

(***************************************************************************)
(* SpecBase: the paginated operations of a repository whose class          *)
(* overrides neither pagination getter, on a collection that documents are *)
(* created in.                                                             *)
(***************************************************************************)
BaseItems == PagedItems \cup { [title |-> "Y", createdOn |-> 1] }

InitBase == InitCommon /\ repo = "base"

NextBase ==
    \/ \E connOk \in ConnChoices, storeOk \in BOOLEAN, item \in BaseItems :
          nextId <= MaxPaged /\ create(item, connOk, storeOk)
    \/ \E connOk \in ConnChoices, storeOk \in BOOLEAN, q \in PagedQueries,
          l \in Limits :
          find(APIQuery(q, l, NoCursor, NoCursor), connOk, storeOk)
    \/ \E connOk \in ConnChoices, storeOk \in BOOLEAN, q \in PagedQueries,
          l \in Limits :
          aggregatePaging(APIQuery(<<q>>, l, NoCursor, NoCursor), connOk, storeOk)
    \/ \E connOk \in ConnChoices, storeOk \in BOOLEAN, q \in PagedQueries,
          l \in Limits :
          search(APIQuery(q, l, NoCursor, NoCursor), "X", connOk, storeOk)

SpecBase == InitBase /\ [][NextBase]_vars

(***************************************************************************)
(* SpecCursor: a caller pages through an OrganizationRepository with find, *)
(* following the next cursor, while documents are inserted, also with a    *)
(* createdOn in the past.                                                  *)
(***************************************************************************)
CursorItems ==
    { [title |-> "X", createdOn |-> t] : t \in Stamps }
    \cup { [title |-> "Y", createdOn |-> 1] }

InitCursor == InitCommon /\ repo = "organization"

NextCursor ==
    \/ \E connOk \in ConnChoices, storeOk \in BOOLEAN, item \in CursorItems :
          nextId <= MaxCursorDocs /\ create(item, connOk, storeOk)
    \/ \E connOk \in ConnChoices, storeOk \in BOOLEAN, q \in PagedQueries,
          l \in Limits :
          findAndKeep(APIQuery(q, l, NoCursor, NoCursor), connOk, storeOk)
    \/ \E connOk \in ConnChoices, storeOk \in BOOLEAN :
          /\ held.page.next # NoCursor
          /\ findAndKeep(APIQuery(held.query, held.limit, held.page.next, NoCursor),
                  connOk, storeOk)
    \/ Advance

SpecCursor == InitCursor /\ [][NextCursor]_vars

(***************************************************************************)
(* SpecExistsOR: documents are created and existsOR is asked about objects *)
(* and field lists that cover some, all or none of an object's fields.     *)
(***************************************************************************)
ExistsORItems ==
    { [title |-> "X"], [title |-> "Y"], [address |-> "0xabc", title |-> "X"] }

InitExistsOR == InitCommon /\ repo = "organization"

NextExistsOR ==
    \/ \E connOk \in ConnChoices, storeOk \in BOOLEAN, item \in ExistsORItems :
          nextId <= MaxDocs /\ create(item, connOk, storeOk)
    \/ \E connOk \in ConnChoices, storeOk \in BOOLEAN, obj \in ExistsORObjects,
          fields \in ExistsORFields :
          existsOR(obj, fields, connOk, storeOk)

SpecExistsOR == InitExistsOR /\ [][NextExistsOR]_vars

(***************************************************************************)
(* SpecFindOneOrCreate: documents come into the collection by create and   *)
(* by findOneOrCreate, called by several users with equality queries and a *)
(* $in query, while time passes.                                           *)
(***************************************************************************)
FindOneOrCreateQueries == { [title |-> Eq("X")], QAddress, QTitleIn }

InitFindOneOrCreate == InitCommon /\ repo = "organization"

NextFindOneOrCreate ==
    \/ now < MaxTime /\ Tick
    \/ \E connOk \in ConnChoices, storeOk \in BOOLEAN, item \in CreateItems :
          nextId <= MaxDocs /\ create(item, connOk, storeOk)
    \/ \E connOk \in ConnChoices, storeOk \in BOOLEAN,
          q \in FindOneOrCreateQueries, user \in Users :
          nextId <= MaxDocs /\ findOneOrCreate(q, user, connOk, storeOk)

SpecFindOneOrCreate == InitFindOneOrCreate /\ [][NextFindOneOrCreate]_vars

(***************************************************************************)
(* SpecUpdate: update, with and without create, with equality queries and  *)
(* a $in query, and items that set the queried field or another one.       *)
(***************************************************************************)
UpsertQueries == { QAddress, [title |-> Eq("X")], QTitleIn }

UpsertItems == { [title |-> "X"], [title |-> "Y"], [owner |-> "bob"] }

InitUpdate == InitCommon /\ repo = "organization"

NextUpdate ==
    \E connOk \in ConnChoices, storeOk \in BOOLEAN, q \in UpsertQueries,
       item \in UpsertItems, c \in BOOLEAN :
       nextId <= MaxDocs /\ update(q, item, c, connOk, storeOk)

SpecUpdate == InitUpdate /\ [][NextUpdate]_vars

(***************************************************************************)
(* SpecIdsSeq: callers ask for organization identifiers one after another: *)
(* a call starts only when none is in progress.  count() stands for the    *)
(* BaseRepository operations, any of which connects the client.            *)
(***************************************************************************)
InitIds == InitCommon /\ repo = "organization"

NextIdsSeq ==
    \/ \E p \in Callers, storeOk \in BOOLEAN :
          AllIdle /\ CounterBelow(MaxIds) /\ getNewOrganizationIdentifier(p, storeOk)
    \/ \E p \in Callers : counterFind(p)
    \/ \E p \in Callers : counterUpsert(p)
    \/ \E connOk \in ConnChoices, storeOk \in BOOLEAN :
          count(EmptyObj, connOk, storeOk)

SpecIdsSeq == InitIds /\ [][NextIdsSeq]_vars

(***************************************************************************)
(* SpecIds: the same, with calls of different callers in progress at once. *)
(***************************************************************************)
NextIds ==
    \/ \E p \in Callers, storeOk \in BOOLEAN :
          CounterBelow(MaxIds) /\ getNewOrganizationIdentifier(p, storeOk)
    \/ \E p \in Callers : counterFind(p)
    \/ \E p \in Callers : counterUpsert(p)
    \/ \E connOk \in ConnChoices, storeOk \in BOOLEAN :
          count(EmptyObj, connOk, storeOk)

SpecIds == InitIds /\ [][NextIds]_vars

(***************************************************************************)
(* SpecConnect: callers start operations on a fresh repository instance    *)
(* while earlier ones are still awaiting the connection; documents are     *)
(* created by calls that run without interruption.                         *)
(***************************************************************************)
InitConnect == InitCommon /\ repo = "organization"

NextConnect ==
    \/ \E p \in Callers : getCollectionEnter(p)
    \/ \E p \in Callers : getConnectionResolved(p)
    \/ \E p \in Callers : getConnectionRejected(p)
    \/ \E p \in Callers, q \in {EmptyObj, QTitleIn}, storeOk \in BOOLEAN :
          countStore(p, q, storeOk)
    \/ \E connOk \in ConnChoices, storeOk \in BOOLEAN, item \in CreateItems :
          nextId <= MaxDocs /\ create(item, connOk, storeOk)

SpecConnect == InitConnect /\ [][NextConnect]_vars

(***************************************************************************)
(* SpecLatest: an event collection of events of two assets, some with      *)
(* equal timestamps, some without timestamp; the _ids include one whose    *)
(* string is longer and sorts before the others'.                          *)
(***************************************************************************)
EventIds == (2..MaxEvents) \cup {10}

EventKinds ==
    { [assetId |-> "0xa", timestamp |-> 1], [assetId |-> "0xa", timestamp |-> 2],
      [assetId |-> "0xb", timestamp |-> 1], [assetId |-> "0xb", timestamp |-> 2],
      [assetId |-> "0xa"] }

\* the events with the given _ids, in the order of their _ids
RECURSIVE EventsOf(_, _)
EventsOf(ids, kind) ==
    IF ids = {} THEN <<>>
    ELSE LET m == CHOOSE i \in ids : \A j \in ids : i <= j
         IN <<Extend(kind[m], [_id |-> m, type |-> "info"])>>
            \o EventsOf(ids \ {m}, kind)

AssetSets == { {"0xa"}, {"0xa", "0xb"} }

InitLatest ==
    /\ \E ids \in SUBSET EventIds : \E kind \in [ids -> EventKinds] :
          docs = EventsOf(ids, kind)
    /\ nextId = 11
    /\ now = 1
    /\ collection = TRUE
    /\ clientDb = TRUE
    /\ identityCounter = <<>>
    /\ repo = "base"
    /\ last = NoCall
    /\ held = NoPage
    /\ pc = [p \in Callers |-> "idle"]
    /\ ret = [p \in Callers |-> 0]
    /\ issued = <<>>
    /\ orgIndexes = NoIndexes

NextLatest ==
    \E assets \in AssetSets, findOk \in BOOLEAN :
       \E infoEvents \in eventRepositoryFind(latestQuery(assets, "info")) :
          getLatestAssetEventsOfType(assets, "info", infoEvents, findOk)

SpecLatest == InitLatest /\ [][NextLatest]_vars

(***************************************************************************)
(* SpecIndex: organizations are created on a fresh OrganizationRepository  *)
(* while the store answers the createIndex requests of the listener.  The  *)
(* store is healthy: it rejects an insert or an index only for a value     *)
(* that two documents would share.                                         *)
(***************************************************************************)
Organizations ==
    { [organizationId |-> 9, title |-> "X", owner |-> "alice"],
      [organizationId |-> 18, title |-> "X", owner |-> "bob"],
      [organizationId |-> 18, title |-> "Y", owner |-> "alice"] }

InitIndex == InitCommon /\ repo = "organization"

NextIndex ==
    \/ \E connOk \in ConnChoices, item \in Organizations :
          nextId <= MaxDocs /\ create(item, connOk, UniqueAdmits(item))
    \/ \E connOk \in ConnChoices, q \in {EmptyObj, [title |-> Eq("X")]} :
          count(q, connOk, TRUE)
    \/ \E f \in IndexFields : createIndex(f)

SpecIndex == InitIndex /\ [][NextIndex]_vars

(***************************************************************************)
(* C1.  Every repository operation: whenever the store client raises a     *)
(* failure during the operation, the error the caller observes is a        *)
(* RepositoryError wrapping it; no raw store-client exception reaches the  *)
(* caller.                                                                 *)
(***************************************************************************)
C1_StoreFailureIsRepositoryError ==
    last.storeFailed => last.outcome = "RepositoryError"

(***************************************************************************)
(* C3.  exists(apiQuery) with an empty query fails with a RepositoryError  *)
(* and sends no request to the store; with a non-empty query it returns    *)
(* true iff at least one document of the collection matches the query.     *)
(* (Stated for the calls in which neither the connection nor the store     *)
(* fails.)                                                                 *)
(***************************************************************************)
C3_Exists ==
    [][\A q \in Queries :
          exists(q, TRUE, TRUE)
          => IF DOMAIN q = {}
             THEN last'.outcome = "RepositoryError" /\ last'.request = NoRequest
             ELSE /\ last'.outcome = "ok"
                  /\ last'.value = (\E i \in 1..Len(docs) : Matches(docs[i], q))]_vars

(***************************************************************************)
(* C2.  On a repository that overrides neither paginatedField nor          *)
(* paginatedAscending, every call of find, search or aggregatePaging fails *)
(* with a DeveloperError, whatever the query and the collection hold.      *)
(* This is the claim as made; the connection is awaited first.             *)
(***************************************************************************)
PagedOps == {"find", "search", "aggregatePaging"}

C2_AlwaysDeveloperError ==
    (repo = "base" /\ last.op \in PagedOps) => last.outcome = "DeveloperError"

\* C2 as amended: such a call never returns a page and sends nothing to the
\* store; it fails with the DeveloperError whenever getCollection() resolves,
\* and with the connection's error when the connection attempt fails
C2_DeveloperErrorOnceConnected ==
    (repo = "base" /\ last.op \in PagedOps)
    => /\ last.outcome = (IF last.connFailed THEN "TransportError"
                          ELSE "DeveloperError")
       /\ last.request = NoRequest
       /\ "value" \notin DOMAIN last

C2_Witness ==
    /\ repo = "base" /\ last.op = "search" /\ last.outcome = "DeveloperError"
    /\ Len(docs) > 0

(***************************************************************************)
(* C5.  For every valid APIQuery with limit L and every collection state,  *)
(* each of find, search and aggregatePaging returns a page with at most L  *)
(* results, ordered by the repository's paginatedField in the direction    *)
(* paginatedAscending gives (OrganizationRepository: createdOn,            *)
(* descending).                                                            *)
(***************************************************************************)
DocWithId(id) == CHOOSE d \in {docs[i] : i \in 1..Len(docs)} : d._id = id

OrderedByPaginatedField(results) ==
    \A i \in 1..(Len(results) - 1) :
        LET a == DocWithId(results[i]._id)[paginatedField.value]
            b == DocWithId(results[i + 1]._id)[paginatedField.value]
        IN IF paginatedAscending.value THEN a <= b ELSE a >= b

C5_PageBoundedAndOrdered ==
    (last.op \in PagedOps /\ last.outcome = "ok")
    => /\ Len(last.value.results) <= last.request.limit
       /\ OrderedByPaginatedField(last.value.results)

(***************************************************************************)
(* C6.  If find(q) with limit L returned a page P1 with a next cursor,     *)
(* find with the same query and that cursor returns the slice that         *)
(* immediately follows P1 in the paginatedField order: no document of P1   *)
(* reappears and no matching document between the last item of P1 and the  *)
(* items of the new page is skipped, also when documents were inserted     *)
(* between the two calls.                                                  *)
(***************************************************************************)
FollowsWithoutGap(h, P2, s) ==
    LET P1 == h.page.results
        lastP1 == P1[Len(P1)]
        field == paginatedField.value
        asc == paginatedAscending.value
        after == {i \in 1..Len(s) : /\ Matches(s[i], h.query)
                                    /\ Before(lastP1, s[i], field, asc)}
        ids2 == {P2[j]._id : j \in 1..Len(P2)}
    IN /\ \A i \in 1..Len(P1), j \in 1..Len(P2) : P1[i]._id # P2[j]._id
       /\ \A j \in 1..Len(P2) : \E i \in after : s[i] = P2[j]
       /\ \A j \in 1..Len(P2), k \in 1..Len(P2) :
             j < k => Before(P2[j], P2[k], field, asc)
       /\ Len(P2) <= h.limit
       /\ \A i \in after :
             s[i]._id \notin ids2
             => Len(P2) = h.limit /\ Before(P2[Len(P2)], s[i], field, asc)

PresentFields(obj, fields) ==
    {fields[i] : i \in {j \in 1..Len(fields) : fields[j] \in DOMAIN obj}}

ClausesOf(obj, fields) ==
    {[f \in {g} |-> Eq(obj[g])] : g \in PresentFields(obj, fields)}

SomeDocHasOneOf(obj, fields) ==
    \E i \in 1..Len(docs) : \E g \in PresentFields(obj, fields) :
        g \in DOMAIN docs[i] /\ docs[i][g] = obj[g]

IssuedOrFind(request, obj, fields) ==
    /\ request # NoRequest
    /\ request.op = "find"
    /\ {request.filter[i] : i \in 1..Len(request.filter)} = ClausesOf(obj, fields)

C4_ExistsOR_AsClaimed ==
    [][\A obj \in ExistsORObjects, fields \in ExistsORFields, connOk \in BOOLEAN :
          existsOR(obj, fields, connOk, TRUE)
          => IF PresentFields(obj, fields) = {}
             THEN last'.outcome = "RepositoryError" /\ last'.request = NoRequest
             ELSE /\ IssuedOrFind(last'.request, obj, fields)
                  /\ last'.outcome = "ok"
                  /\ last'.value = SomeDocHasOneOf(obj, fields)]_vars

\* C4 as amended: the above holds for the calls whose getCollection()
\* resolves; a call whose connection attempt fails ends with the
\* connection's error and issues no find, whatever the fields; a find the
\* store fails ends with a RepositoryError; the collection is never changed
C4_ExistsOR ==
    [][\A obj \in ExistsORObjects, fields \in ExistsORFields,
          connOk \in BOOLEAN, storeOk \in BOOLEAN :
          existsOR(obj, fields, connOk, storeOk)
          => /\ docs' = docs
             /\ IF ~getCollection(connOk)
                THEN last'.outcome = "TransportError" /\ last'.request = NoRequest
                ELSE IF PresentFields(obj, fields) = {}
                THEN last'.outcome = "RepositoryError" /\ last'.request = NoRequest
                ELSE /\ IssuedOrFind(last'.request, obj, fields)
                     /\ IF storeOk
                        THEN /\ last'.outcome = "ok"
                             /\ last'.value = SomeDocHasOneOf(obj, fields)
                        ELSE last'.outcome = "RepositoryError"]_vars

\* existsOR answered true on an OR of two clauses of which one is satisfied
\* by no document
C4_Witness ==
    /\ last.op = "existsOR" /\ last.outcome = "ok" /\ last.value = TRUE
    /\ Len(last.request.filter) = 2
    /\ \E k \in 1..2 : \A i \in 1..Len(docs) : ~Matches(docs[i], last.request.filter[k])

(***************************************************************************)
(* C7.  findOneOrCreate(q, user) never modifies a document that already    *)
(* matches q: called when no document matches, it inserts exactly one      *)
(* document with createdOn/createdBy set and returns it; any later call    *)
(* with the same q (any createUser, any later time) returns that same      *)
(* document with createdOn and createdBy unchanged and leaves the number   *)
(* of documents unchanged.  This is the claim as made, for every query.    *)
(***************************************************************************)
\* what one answered call does: a match is returned untouched; without a
\* match one document, stamped with the time and the user, is appended and
\* returned
FindOneOrCreateStep(q, user) ==
    IF FirstMatch(docs, q) > 0
    THEN /\ docs' = docs
         /\ last'.value = docs[FirstMatch(docs, q)]
    ELSE /\ docs' = Append(docs, last'.value)
         /\ last'.value.createdOn = now
         /\ last'.value.createdBy = user
         /\ \A i \in 1..Len(docs) : docs[i]._id # last'.value._id

\* the call follows an answered findOneOrCreate with the same query
FollowsFindOneOrCreate(q) ==
    /\ last.op = "findOneOrCreate"
    /\ last.outcome = "ok"
    /\ last.request.filter = q

C7_AsClaimed ==
    [][\A q \in FindOneOrCreateQueries, user \in Users :
          findOneOrCreate(q, user, TRUE, TRUE)
          => /\ FindOneOrCreateStep(q, user)
             /\ FollowsFindOneOrCreate(q)
                => last'.value = last.value /\ Len(docs') = Len(docs)]_vars

\* every clause of the filter is an equality
AllEquality(q) == \A f \in DOMAIN q : q[f].op = "eq"

\* C7 as amended: the later call returns the same document when q is made
\* of equality clauses only (the inserted document is seeded from them); a
\* call that fails changes nothing
C7_FindOneOrCreate ==
    [][\A q \in FindOneOrCreateQueries, user \in Users,
          connOk \in BOOLEAN, storeOk \in BOOLEAN :
          findOneOrCreate(q, user, connOk, storeOk)
          => IF getCollection(connOk) /\ storeOk
             THEN /\ last'.outcome = "ok"
                  /\ FindOneOrCreateStep(q, user)
                  /\ (FollowsFindOneOrCreate(q) /\ AllEquality(q))
                     => last'.value = last.value /\ Len(docs') = Len(docs)
             ELSE docs' = docs /\ last'.outcome # "ok"]_vars

\* a later call, by another user at a later time, got the document back as
\* it was created
C7_Witness ==
    /\ last.op = "findOneOrCreate" /\ last.outcome = "ok"
    /\ Matches(last.value, last.request.filter)
    /\ "createdBy" \in DOMAIN last.value
    /\ last.value.createdOn < last.request.setOnInsert.createdOn
    /\ last.value.createdBy # last.request.setOnInsert.createdBy

(***************************************************************************)
(* C8.  update(query, item, create=true) with no document matching query   *)
(* inserts exactly one document carrying the query's equality fields and   *)
(* item's fields and returns it; a subsequent update with the same query   *)
(* and a different item changes the fields of that same document, returns  *)
(* it with the new values and does not increase the number of documents.   *)
(* With create=false and no match, update returns absent and leaves the    *)
(* collection unchanged.  This is the claim as made, for every query and   *)
(* item.                                                                   *)
(***************************************************************************)
\* the document carries item's fields, and the filter's equality fields
\* that item does not set
Carries(doc, q, item) ==
    /\ \A f \in DOMAIN item : f \in DOMAIN doc /\ doc[f] = item[f]
    /\ \A f \in DOMAIN EqualityFields(q) \ DOMAIN item :
          f \in DOMAIN doc /\ doc[f] = EqualityFields(q)[f]

\* what one answered call does
UpdateStep(q, item, c) ==
    LET i == FirstMatch(docs, q) IN
    IF i > 0
    THEN /\ Len(docs') = Len(docs)
         /\ \A j \in 1..Len(docs) : j # i => docs'[j] = docs[j]
         /\ docs'[i]._id = docs[i]._id
         /\ \A f \in DOMAIN item : docs'[i][f] = item[f]
         /\ \A f \in DOMAIN docs[i] \ DOMAIN item : docs'[i][f] = docs[i][f]
         /\ last'.value = docs'[i]
    ELSE IF c
    THEN /\ docs' = Append(docs, last'.value)
         /\ Carries(last'.value, q, item)
         /\ \A j \in 1..Len(docs) : docs[j]._id # last'.value._id
    ELSE /\ docs' = docs
         /\ last'.value = Null

\* the step inserted a document, and it is the document that an update with
\* the same query selects from then on
InsertedIsSelected(q, c) ==
    (FirstMatch(docs, q) = 0 /\ c) => FirstMatch(docs', q) = Len(docs')

KeepsQueried(q, item) ==
    \A f \in DOMAIN item \cap DOMAIN q : item[f] \in q[f].vs

C9_SequentialIds ==
    /\ \A k \in 1..Len(issued) : issued[k] = 9 * k
    /\ \A j \in 1..Len(issued), k \in 1..Len(issued) :
          j < k => issued[j] < issued[k]
    /\ Len(identityCounter) <= 1

\* both callers were served, three identifiers in all
C9_Witness ==
    /\ Len(issued) = 3
    /\ ret[1] # 0 /\ ret[2] # 0
    /\ last.op = "getNewOrganizationIdentifier" /\ last.outcome = "ok"
    /\ last.value = 27

(***************************************************************************)
(* C10.  Under any interleaving of concurrent getNewOrganizationIdentifier *)
(* calls, also calls racing on the first, upserting increment, no two      *)
(* calls return the same identifier, identityCounter holds at most one     *)
(* document for the organization counter key, and the returned values are  *)
(* those of some sequential order of the calls.                            *)
(***************************************************************************)
C10_ConcurrentIds ==
    /\ \A j \in 1..Len(issued), k \in 1..Len(issued) :
          j # k => issued[j] # issued[k]
    /\ Len(identityCounter) <= 1
    /\ {issued[k] : k \in 1..Len(issued)} = {9 * k : k \in 1..Len(issued)}

(***************************************************************************)
(* C11.  createBulk([]) returns 0 without raising any error and without    *)
(* changing the collection; createBulk of N valid documents returns the    *)
(* number of documents actually inserted, which is at most N.  (Stated for *)
(* the calls in which neither the connection nor the store fails.)         *)
(***************************************************************************)
BulkInputs == {<<>>} \cup {<<i>> : i \in CreateItems}

C11_CreateBulk ==
    [][\A items \in BulkInputs :
          createBulk(items, TRUE, TRUE)
          => /\ last'.outcome = "ok"
             /\ last'.value = Len(docs') - Len(docs)
             /\ last'.value <= Len(items)
             /\ items = <<>> => (last'.value = 0 /\ docs' = docs)]_vars

(***************************************************************************)
(* C12.  When client.getConnection() fails during a repository operation,  *)
(* the operation makes no second connection attempt, issues no store       *)
(* operation, and surfaces the failure to the caller at once as the        *)
(* client's transport error; the cached collection handle stays unset, so  *)
(* the next repository operation calls getConnection() again.              *)
(***************************************************************************)
C12_ConnectionFailure ==
    [][/\ \A p \in Callers :
             getConnectionRejected(p)
             => /\ pc'[p] = "idle"
                /\ last'.outcome = "TransportError"
                /\ last'.connFailed /\ ~last'.storeFailed
                /\ last'.request = NoRequest
                /\ docs' = docs
                /\ ~collection'
       /\ \A p \in Callers :
             (getCollectionEnter(p) /\ ~collection) => pc'[p] = "connecting"
       /\ (last' # last /\ last'.connFailed)
          => /\ last'.outcome = "TransportError"
             /\ last'.request = NoRequest
             /\ docs' = docs
             /\ ~collection']_vars

\* after a failed attempt the handle is unset and an operation started since
\* awaits a connection of its own
C12_Witness ==
    /\ last.connFailed /\ last.outcome = "TransportError"
    /\ ~collection
    /\ \E p \in Callers : pc[p] = "connecting"

(***************************************************************************)
(* C13.  For one repository instance and any interleaving of its           *)
(* operations, also several started before the first connection attempt    *)
(* has resolved, client.getConnection() is invoked at most once (no two    *)
(* operations await a connection of their own), the cached collection      *)
(* handle is assigned at most once, and every operation started after the  *)
(* handle is set reuses it without calling getConnection().                *)
(***************************************************************************)
C13_ConnectOnce ==
    [][/\ \A p \in Callers, r \in Callers :
             (pc'[p] = "connecting" /\ pc'[r] = "connecting") => p = r
       /\ \A p \in Callers : getConnectionResolved(p) => ~collection
       /\ \A p \in Callers :
             (getCollectionEnter(p) /\ collection) => pc'[p] = "ready"]_vars

(***************************************************************************)
(* C15.  getLatestAssetEventsOfType returns, for the sequence of events    *)
(* found, exactly one event per distinct assetId occurring in it, namely   *)
(* the event with the greatest timestamp for that asset, ties broken by    *)
(* the greatest _id string; the result does not depend on the order in     *)
(* which the found events are iterated.  This is the claim as made.        *)
(***************************************************************************)
AssetIdsOf(s) == {s[i].assetId : i \in 1..Len(s)}

\* one event of the found ones per asset found
OnePerAsset(result, infoEvents) ==
    /\ AssetIdsOf(result) = AssetIdsOf(infoEvents)
    /\ \A i \in 1..Len(result), j \in 1..Len(result) :
          result[i].assetId = result[j].assetId => i = j
    /\ Range(result) \subseteq Range(infoEvents)

AllStamped(infoEvents) ==
    \A i \in 1..Len(infoEvents) : "timestamp" \in DOMAIN infoEvents[i]

\* f comes before e: a smaller timestamp, or the same with a smaller _id
\* string; an event without timestamp is neither before nor after one with
Precedes(f, e) ==
    IF "timestamp" \in DOMAIN f /\ "timestamp" \in DOMAIN e
    THEN \/ f.timestamp < e.timestamp
         \/ /\ f.timestamp = e.timestamp
            /\ StringLess(toString(f._id), toString(e._id))
    ELSE /\ "timestamp" \notin DOMAIN f /\ "timestamp" \notin DOMAIN e
         /\ StringLess(toString(f._id), toString(e._id))

\* every returned event is the greatest of its asset
EachGreatest(result, infoEvents) ==
    \A i \in 1..Len(result) : \A k \in 1..Len(infoEvents) :
        (infoEvents[k].assetId = result[i].assetId /\ infoEvents[k] # result[i])
        => Precedes(infoEvents[k], result[i])

InOrderOfFirstOccurrence(result, infoEvents) ==
    \A i \in 1..Len(result), j \in 1..Len(result) :
        i < j => KeyIndex(infoEvents, result[i].assetId, 1)
                 < KeyIndex(infoEvents, result[j].assetId, 1)

IndexesAnswered ==
    /\ \A f \in IndexFields : orgIndexes.requested[f] > 0
    /\ orgIndexes.pending = {}

C14_IndexesDeclared ==
    /\ (\E f \in IndexFields : orgIndexes.requested[f] > 0) => clientDb
    /\ \A f \in IndexFields : orgIndexes.requested[f] <= 1
    /\ \A f \in IndexFields, g \in IndexFields :
          orgIndexes.requested[f] = orgIndexes.requested[g]
    /\ IndexesAnswered => orgIndexes.declared = IndexFields

====
